---- MODULE Spec2Model ----
(***************************************************************************)
(* A model of cedargrove_wavebuilder.WaveBuilder: the builder's fields,    *)
(* its constructor, its property setters and getters, and the rebuild      *)
(* routine _update_table with the five waveform generators.                *)
(*                                                                         *)
(* Numbers.  Python floats are modelled as exact rationals <<n, d>> with   *)
(* d > 0, kept in lowest terms.  The inputs are chosen so that every float *)
(* operation of the code on them is exact (amplitudes are multiples of     *)
(* 1/4, lambda factors are integers) or is followed by a truncation that   *)
(* the rounding error cannot move.  Samples are signed 16 bit integers;    *)
(* the sum of two sample arrays wraps modulo 2^16 as the array library's   *)
(* int16 addition does.  np.sin is modelled by Bhaskara's rational         *)
(* approximation (exact at multiples of 30 degrees, |error| < 0.002).      *)
(***************************************************************************)
EXTENDS Integers, Sequences, FiniteSets, TLC

VARIABLES
    constructed,       \* TRUE once __init__ has returned: the object can be read
    oscillators,       \* self._oscillators
    table_length,      \* self._table_length
    sample_max,        \* self._sample_max
    lambda_factor,     \* self._lambda_factor
    loop_smoothing,    \* self._loop_smoothing
    waveform,          \* self._waveform
    loop_distortion,   \* self._loop_distortion (a rational)
    summed_amplitude,  \* self._summed_amplitude (a rational)
    result,            \* how the last call ended: "new", "ok" or the error raised
    given,             \* the oscillator list as it stood when the last rebuild began
    failures,          \* the failed calls since the last successful rebuild
    reconfigured,      \* TRUE once a property setter has been called
    held               \* the array a consumer got from wave_table: "none",
                       \* "current" (the object self._waveform is bound to)
                       \* or "earlier" (an object the builder has let go of)

vars == <<constructed, oscillators, table_length, sample_max, lambda_factor,
          loop_smoothing, waveform, loop_distortion, summed_amplitude, result,
          given, failures, reconfigured, held>>

-----------------------------------------------------------------------------
(* class WaveShape *)
Noise == "noise"
Saw == "saw"
Sine == "sine"
Square == "square"
Triangle == "triangle"

-----------------------------------------------------------------------------
(* Bounds and input sets *)

\* The longest table_length a caller asks for.
MaxTableLength == 9

\* The table lengths a caller asks for.  No configuration passes the
\* resolution test with fewer than 4 samples; 3 stands for those lengths.
TableLengths == 3..MaxTableLength

\* The longest run of failed calls explored: a caller whose call has raised
\* makes at most this many failing calls in a row before one that succeeds.
MaxFailures == 2

\* The same, for the runs in which a consumer holds on to a wave table.
MaxConsumerFailures == 1

\* sample_max values a caller passes; 32767 is the default.
SampleMaxes == {100, 32767}

\* lambda_factor values a caller passes; 1 is the default.
LambdaFactors == {1, 2}

\* The outcomes explored for the draws of random.randint(-a, a): the k-th draw
\* of a stream is one of -a, 0, a, the stream being picked by its seed.
NoiseSeeds == {0, 1, 2}

Osc(shape, freq, an, ad) == <<shape, <<freq, 1>>, <<an, ad>>>>

\* The oscillator lists a caller passes: (shape, frequency, amplitude) tuples.
OscillatorLists ==
    { <<Osc(Sine, 1, 1, 2)>>,
      <<Osc(Square, 2, 3, 4)>>,
      <<Osc(Triangle, 1, 1, 1)>>,
      <<Osc(Noise, 1, 1, 4)>>,
      <<Osc(Square, 1, 1, 2), Osc(Square, 1, 1, 2)>>,
      <<Osc(Sine, 2, 1, 2), Osc(Saw, 3, -1, 4)>>,
      <<Osc(Saw, 1, -1, 2), Osc(Sine, 1, 3, 4)>>,
      <<Osc(Sine, 440, 1, 4), Osc(Sine, 880, 1, 4), Osc(Sine, 220, 1, 4)>> }

-----------------------------------------------------------------------------
(* Arithmetic *)

Abs(x) == IF x < 0 THEN -x ELSE x

Min(a, b) == IF a < b THEN a ELSE b

RECURSIVE GCD(_, _)
GCD(a, b) == IF b = 0 THEN a ELSE GCD(b, a % b)

\* A rational in lowest terms with a positive denominator.
Rat(n, d) ==
    LET g == GCD(Abs(n), Abs(d))
        s == IF d < 0 THEN -1 ELSE 1
    IN <<(s * n) \div g, (s * d) \div g>>

RatDiv(a, b) == Rat(a[1] * b[2], a[2] * b[1])

RatAdd(a, b) == Rat(a[1] * b[2] + b[1] * a[2], a[2] * b[2])

RatAbs(a) == <<Abs(a[1]), a[2]>>

RatLess(a, b) == a[1] * b[2] < b[1] * a[2]

\* Mutant of Trunc: the quotient is floored, as n // d does.
TruncFloors(n, d) == n \div d

\* int(x) of the float n/d: truncation towards zero.
Trunc(n, d) == IF n >= 0 THEN n \div d ELSE -((-n) \div d)

\* round(n/d, 0): the nearest integer, a tie going to the even one.
RoundHalfEven(n, d) ==
    LET q == n \div d
        r == n - q * d
    IN IF 2 * r < d THEN q
       ELSE IF 2 * r > d THEN q + 1
       ELSE IF q % 2 = 0 THEN q ELSE q + 1

\* A value stored in an int16 array element.
Wrap16(x) == ((x + 32768) % 65536) - 32768

-----------------------------------------------------------------------------
(* Array helpers *)

Zeros(n) == [i \in 1..n |-> 0]

Ones(n, v) == [i \in 1..n |-> v]

\* np.linspace(start, stop, num, dtype=np.int16): num evenly spaced values from
\* start to stop inclusive, each cast to int16 by truncation towards zero.
Linspace(start, stop, num) ==
    [i \in 1..num |->
        IF num = 1 THEN start
        ELSE Trunc(start * (num - 1) + (i - 1) * (stop - start), num - 1)]

\* The while loop of the Saw, Square and Triangle generators: the unit cell is
\* appended until the array holds at least table_length samples.
RECURSIVE Extend(_, _, _)
Extend(temporary, cell, tl) ==
    IF Len(temporary) < tl /\ Len(cell) > 0
    THEN Extend(temporary \o cell, cell, tl)
    ELSE temporary

\* Mutant of Truncate: the array is returned as the loop left it.
TruncateSkipped(temporary, tl) == temporary

\* _temporary[: self._table_length]
Truncate(temporary, tl) == SubSeq(temporary, 1, Min(tl, Len(temporary)))

\* int((table_length / (lambda_factor * fraction)) / ratio)
SegmentLength(tl, lf, fraction, ratio) ==
    (tl * ratio[2]) \div (lf * fraction * ratio[1])

\* min(int(round(self._sample_max * amplitude, 0)), self._sample_max)
AmpFactor(sm, amplitude) ==
    Min(RoundHalfEven(sm * amplitude[1], amplitude[2]), sm)

-----------------------------------------------------------------------------
(* The generators.  Each takes (ratio, amplitude) and the builder's           *)
(* table_length tl, sample_max sm and lambda_factor lf.                       *)

\* One draw of random.randint(-a, a): draw number i of the stream `seed`.
RandInt(a, seed, i) == (((seed + i) % 3) - 1) * a

NoiseWave(ratio, amplitude, tl, sm, lf, seed) ==
    LET amp_factor == Abs(AmpFactor(sm, amplitude))
    IN [i \in 1..tl |-> RandInt(amp_factor, seed, i)]

SawWave(ratio, amplitude, tl, sm, lf) ==
    LET amp_factor == AmpFactor(sm, amplitude)
        half_lambda == SegmentLength(tl, lf, 2, ratio)
        cell == Linspace(0, amp_factor, half_lambda - 1)
                \o <<0>>
                \o Linspace(-amp_factor, 0, half_lambda - 1)
    IN Truncate(Extend(<<>>, cell, tl), tl)

\* amp * sin(2 pi p / q) for 0 <= p/q <= 1/2, cast to int16 by truncation.
SinHalfTurn(amp, p, q) ==
    Trunc(amp * 32 * p * (q - 2 * p), 5 * q * q - 8 * p * (q - 2 * p))

\* amp * sin(2 pi p / q) for any p >= 0, cast to int16 by truncation.
SinSample(amp, p, q) ==
    LET r == p % q
    IN IF 2 * r <= q THEN SinHalfTurn(amp, r, q)
       ELSE SinHalfTurn(-amp, 2 * r - q, 2 * q)

SineWave(ratio, amplitude, tl, sm, lf) ==
    LET amp_factor == AmpFactor(sm, amplitude)
    IN [i \in 1..tl |->
           SinSample(amp_factor, lf * ratio[1] * (i - 1), ratio[2] * tl)]

SquareWave(ratio, amplitude, tl, sm, lf) ==
    LET amp_factor == AmpFactor(sm, amplitude)
        half_lambda == SegmentLength(tl, lf, 2, ratio)
        cell == <<0>> \o Ones(half_lambda - 1, amp_factor)
                \o <<0>> \o Ones(half_lambda - 1, -amp_factor)
    IN Truncate(Extend(<<>>, cell, tl), tl)

TriangleWave(ratio, amplitude, tl, sm, lf) ==
    LET amp_factor == AmpFactor(sm, amplitude)
        quarter_lambda == SegmentLength(tl, lf, 4, ratio)
        increment == Trunc(amp_factor, quarter_lambda)
        cell == Linspace(0, amp_factor, quarter_lambda)
                \o Linspace(amp_factor - increment, 0, quarter_lambda)
                \o Linspace(0 - increment, -amp_factor, quarter_lambda)
                \o Linspace(-amp_factor + increment, 0 - increment, quarter_lambda)
    IN Truncate(Extend(<<>>, cell, tl), tl)

-----------------------------------------------------------------------------
(* _update_table *)

\* min([osc[1] for osc in self._oscillators])
RECURSIVE MinFrequency(_, _)
MinFrequency(oscs, k) ==
    IF k = Len(oscs) THEN oscs[k][2]
    ELSE LET rest == MinFrequency(oscs, k + 1)
         IN IF RatLess(rest, oscs[k][2]) THEN rest ELSE oscs[k][2]

\* Mutant of FundamentalFrequency: the first oscillator is taken as the fundamental.
FundamentalIsFirst(oscs) == oscs[1][2]

FundamentalFrequency(oscs) == MinFrequency(oscs, 1)

\* [(t, freq / fundamental_frequency, a) for t, freq, a in self._oscillators]
Normalize(oscs) ==
    LET fundamental_frequency == FundamentalFrequency(oscs)
    IN [k \in 1..Len(oscs) |->
           <<oscs[k][1], RatDiv(oscs[k][2], fundamental_frequency), oscs[k][3]>>]

\* Mutant of AmplitudeTerm: the amplitude is summed with its sign.
AmplitudeTermSigned(osc) == osc[3]

\* One term of the amplitude sum: abs(osc[2]).
AmplitudeTerm(osc) == RatAbs(osc[3])

\* sum([abs(osc[2]) for osc in self._oscillators])
RECURSIVE SumAmplitudes(_, _)
SumAmplitudes(oscs, k) ==
    IF k > Len(oscs) THEN <<0, 1>>
    ELSE RatAdd(AmplitudeTerm(oscs[k]), SumAmplitudes(oscs, k + 1))

SummedAmplitude(oscs) == SumAmplitudes(oscs, 1)

\* if self._summed_amplitude > 1.0
ExceedsBudget(summed) == RatLess(<<1, 1>>, summed)

\* The fraction chosen for an oscillator by the resolution test.  The first
\* condition, `WaveShape.Square or WaveShape.Saw in overtone[0]`, is the
\* non-empty string WaveShape.Square or-ed with a membership test, which is
\* true for every oscillator.  The second, `WaveShape.Triangle in overtone`,
\* is membership in the tuple, true exactly when the shape is Triangle.
Fraction(overtone) ==
    LET fraction0 == 1
        fraction1 == IF Square # "" \/ overtone[1] = Saw THEN 2 ELSE fraction0
        fraction2 == IF overtone[1] = Triangle THEN 4 ELSE fraction1
    IN fraction2

\* The test that raises the resolution error for one oscillator.
TooSmall(overtone, tl, lf) ==
    SegmentLength(tl, lf, Fraction(overtone), overtone[2]) < 2

\* The first oscillator, in list order, that fails the resolution test; 0 if none.
RECURSIVE FirstTooSmall(_, _, _, _)
FirstTooSmall(oscs, k, tl, lf) ==
    IF k > Len(oscs) THEN 0
    ELSE IF TooSmall(oscs[k], tl, lf) THEN k
    ELSE FirstTooSmall(oscs, k + 1, tl, lf)

\* min_length = 2 + (2 * int(self._lambda_factor * fraction * overtone[1]))
MinLength(overtone, lf) ==
    2 + 2 * ((lf * Fraction(overtone) * overtone[2][1]) \div overtone[2][2])

\* The waveform of oscillator number k of the list.
WaveOf(osc, k, tl, sm, lf, seed) ==
    CASE osc[1] = Noise -> NoiseWave(osc[2], osc[3], tl, sm, lf, seed + k)
      [] osc[1] = Saw -> SawWave(osc[2], osc[3], tl, sm, lf)
      [] osc[1] = Sine -> SineWave(osc[2], osc[3], tl, sm, lf)
      [] osc[1] = Square -> SquareWave(osc[2], osc[3], tl, sm, lf)
      [] osc[1] = Triangle -> TriangleWave(osc[2], osc[3], tl, sm, lf)

\* The array library's linspace with fewer than two points: numpy returns the
\* start value alone, ulab raises ValueError.  `strict` is the ulab behaviour.
\* Only the Saw generator, which asks for half_lambda - 1 points, can get there.
LinspaceRaises(osc, tl, lf, strict) ==
    /\ strict
    /\ osc[1] = Saw
    /\ SegmentLength(tl, lf, 2, osc[2]) - 1 < 2

\* self._waveform + wave: element-wise int16 addition.
AddWaves(acc, wave) == [i \in 1..Len(acc) |-> Wrap16(acc[i] + wave[i])]

\* The loop that adds each oscillator's waveform to self._waveform.  It ends
\* with the table and "ok", or with the error raised on the way and the table
\* as the assignments made before it left it.
RECURSIVE Accumulate(_, _, _, _, _, _, _, _)
Accumulate(oscs, k, acc, tl, sm, lf, seed, strict) ==
    IF k > Len(oscs) THEN [wave |-> acc, raised |-> "ok"]
    ELSE IF LinspaceRaises(oscs[k], tl, lf, strict)
         THEN [wave |-> acc, raised |-> "linspace"]
    ELSE LET wave == WaveOf(oscs[k], k, tl, sm, lf, seed)
         IN IF Len(wave) # Len(acc)
            THEN [wave |-> acc, raised |-> "shape"]
            ELSE Accumulate(oscs, k + 1, AddWaves(acc, wave), tl, sm, lf,
                            seed, strict)

\* Mutant of Smooth: the last element is not set to the first.
SmoothPenultimateOnly(w, ls) ==
    LET n == Len(w)
    IN IF ls /\ w[n] # w[1]
       THEN [w EXCEPT ![n - 1] = Wrap16(Trunc(w[n - 1] + w[1], 2))]
       ELSE w

\* Mutant of Smooth: the average is rounded to the nearest integer.
SmoothRounds(w, ls) ==
    LET n == Len(w)
    IN IF ls /\ w[n] # w[1]
       THEN LET w1 == [w EXCEPT
                         ![n - 1] = Wrap16(RoundHalfEven(w[n - 1] + w[1], 2))]
            IN [w1 EXCEPT ![n] = w1[1]]
       ELSE w

\* Loop smoothing of the last two elements of the array.
Smooth(w, ls) ==
    LET n == Len(w)
    IN IF ls /\ w[n] # w[1]
       THEN LET w1 == [w EXCEPT ![n - 1] = Wrap16(Trunc(w[n - 1] + w[1], 2))]
            IN [w1 EXCEPT ![n] = w1[1]]
       ELSE w

\* abs(self._waveform[0] - self._waveform[-1]) / self._sample_max * 100
LoopDistortion(w, sm) == Rat(Abs(w[1] - w[Len(w)]) * 100, sm)

\* Mutant of TableAfterRaise: the table is allocated before the checks run.
TableAllocatedEarly(old, tl) == Zeros(tl)

\* self._waveform when a check raises: the raise comes before the table is
\* allocated, so the attribute keeps the object it had.
TableAfterRaise(old, tl) == old

\* Mutant of TableObject: the rebuild clears and fills the array it already
\* has, so the attribute stays bound to the same object.
TableObjectReused(h) == h

\* self._waveform = np.zeros(...) and self._waveform = self._waveform + wave
\* bind the attribute to a newly allocated array: an array handed out before
\* is from then on an earlier object, which the builder no longer refers to.
TableObject(h) == IF h = "current" THEN "earlier" ELSE h

HasNoise(oscs) == \E k \in 1..Len(oscs) : oscs[k][1] = Noise

HasShortSaw(oscs, tl, lf) ==
    \E k \in 1..Len(oscs) : LinspaceRaises(oscs[k], tl, lf, TRUE)

\* _update_table, run with the fields as the caller has just set them.
UpdateTable(oscs, tl, sm, lf, ls) ==
    LET normalized == Normalize(oscs)
        summed == SummedAmplitude(normalized)
    IN /\ given' = oscs
       /\ oscillators' = normalized
       /\ summed_amplitude' = summed
       /\ IF ExceedsBudget(summed)
          THEN /\ result' = "amplitude"
               /\ waveform' = TableAfterRaise(waveform, tl)
               /\ UNCHANGED <<loop_distortion, held>>
          ELSE IF FirstTooSmall(normalized, 1, tl, lf) # 0
          THEN /\ result' = "resolution"
               /\ waveform' = TableAfterRaise(waveform, tl)
               /\ UNCHANGED <<loop_distortion, held>>
          ELSE \E seed \in (IF HasNoise(normalized) THEN NoiseSeeds ELSE {0}),
                  strict \in (IF HasShortSaw(normalized, tl, lf)
                              THEN BOOLEAN ELSE {FALSE}) :
                 LET sum == Accumulate(normalized, 1, Zeros(tl), tl, sm, lf,
                                       seed, strict)
                 IN /\ held' = TableObject(held)
                    /\ IF sum.raised # "ok"
                       THEN /\ result' = sum.raised
                            /\ waveform' = sum.wave
                            /\ UNCHANGED loop_distortion
                       ELSE LET smoothed == Smooth(sum.wave, ls)
                            IN /\ result' = "ok"
                               /\ waveform' = smoothed
                               /\ loop_distortion'
                                    = LoopDistortion(smoothed, sm)
       /\ failures' = (IF result' = "ok" THEN 0 ELSE failures + 1)
       /\ failures' <= MaxFailures

-----------------------------------------------------------------------------
(* The constructor and the property setters *)

Init ==
    /\ constructed = FALSE
    /\ oscillators = <<>>
    /\ table_length = 0
    /\ sample_max = 0
    /\ lambda_factor = 0
    /\ loop_smoothing = FALSE
    /\ waveform = <<>>
    /\ loop_distortion = <<0, 1>>
    /\ summed_amplitude = <<0, 1>>
    /\ result = "new"
    /\ given = <<>>
    /\ failures = 0
    /\ reconfigured = FALSE
    /\ held = "none"

\* WaveBuilder(oscillators, table_length, sample_max, lambda_factor, loop_smoothing)
Construct ==
    \E oscs \in OscillatorLists, tl \in TableLengths, sm \in SampleMaxes,
       lf \in LambdaFactors, ls \in BOOLEAN :
        /\ result = "new"
        /\ UNCHANGED reconfigured
        /\ table_length' = tl
        /\ sample_max' = sm
        /\ lambda_factor' = lf
        /\ loop_smoothing' = ls
        /\ UpdateTable(oscs, tl, sm, lf, ls)
        /\ constructed' = (result' = "ok")

SetOscillators ==
    \E new_oscillators \in OscillatorLists :
        /\ constructed
        /\ reconfigured' = TRUE
        /\ UNCHANGED <<constructed, table_length, sample_max, lambda_factor,
                       loop_smoothing>>
        /\ UpdateTable(new_oscillators, table_length, sample_max,
                       lambda_factor, loop_smoothing)

SetTableLength ==
    \E new_table_length \in TableLengths :
        /\ constructed
        /\ reconfigured' = TRUE
        /\ table_length' = new_table_length
        /\ UNCHANGED <<constructed, sample_max, lambda_factor, loop_smoothing>>
        /\ UpdateTable(oscillators, new_table_length, sample_max,
                       lambda_factor, loop_smoothing)

\* Mutant of SetSampleMax: the field is stored and the table is not rebuilt.
SetSampleMaxNoRebuild ==
    \E new_sample_max \in SampleMaxes :
        /\ constructed
        /\ reconfigured' = TRUE
        /\ sample_max' = new_sample_max
        /\ UNCHANGED <<constructed, table_length, lambda_factor, loop_smoothing,
                       oscillators, waveform, loop_distortion,
                       summed_amplitude, result, given, failures, held>>

SetSampleMax ==
    \E new_sample_max \in SampleMaxes :
        /\ constructed
        /\ reconfigured' = TRUE
        /\ sample_max' = new_sample_max
        /\ UNCHANGED <<constructed, table_length, lambda_factor, loop_smoothing>>
        /\ UpdateTable(oscillators, table_length, new_sample_max,
                       lambda_factor, loop_smoothing)

SetLambdaFactor ==
    \E new_lambda_factor \in LambdaFactors :
        /\ constructed
        /\ reconfigured' = TRUE
        /\ lambda_factor' = new_lambda_factor
        /\ UNCHANGED <<constructed, table_length, sample_max, loop_smoothing>>
        /\ UpdateTable(oscillators, table_length, sample_max,
                       new_lambda_factor, loop_smoothing)

SetLoopSmoothing ==
    \E new_loop_smoothing \in BOOLEAN :
        /\ constructed
        /\ reconfigured' = TRUE
        /\ loop_smoothing' = new_loop_smoothing
        /\ UNCHANGED <<constructed, table_length, sample_max, lambda_factor>>
        /\ UpdateTable(oscillators, table_length, sample_max, lambda_factor,
                       new_loop_smoothing)

-----------------------------------------------------------------------------
(* The property getters.  A value read by the caller carries its Python type. *)

PyInt(v) == [type |-> "int", value |-> v]

PyList(v) == [type |-> "list", value |-> v]

\* The table_length property: `return self._oscillators`.
TableLengthProperty == PyList(oscillators)

\* The wave_table property: `return self._waveform`.
WaveTableProperty == waveform

\* The loop_distortion property: `return self._loop_distortion`.
LoopDistortionProperty == loop_distortion

\* The summed_amplitude property: `return self._summed_amplitude`.
SummedAmplitudeProperty == summed_amplitude

-----------------------------------------------------------------------------
Next ==
    \/ Construct
    \/ SetOscillators
    \/ SetTableLength
    \/ SetSampleMax
    \/ SetLambdaFactor
    \/ SetLoopSmoothing

Spec == Init /\ [][Next]_vars

\* A consumer reads wave_table and keeps the array, as the example does with
\* synthio.Note(..., waveform=wave.wave_table) and note_1.waveform =
\* wave.wave_table: the getter returns the object itself, not a copy.
ReadWaveTable ==
    /\ constructed
    /\ held # "current"
    /\ held' = "current"
    /\ UNCHANGED <<constructed, oscillators, table_length, sample_max,
                   lambda_factor, loop_smoothing, waveform, loop_distortion,
                   summed_amplitude, result, given, failures, reconfigured>>

\* A call on the builder while a consumer may hold one of its tables.
Reconfigure == Next /\ failures' <= MaxConsumerFailures

NextConsumer ==
    \/ ReadWaveTable
    \/ Reconfigure

SpecConsumer == Init /\ [][NextConsumer]_vars

-----------------------------------------------------------------------------
(* The properties *)

Errors == {"amplitude", "resolution"}

\* The sum of the absolute amplitudes of a list, from oscillator k on.
RECURSIVE AbsAmplitudeTotal(_, _)
AbsAmplitudeTotal(oscs, k) ==
    IF k > Len(oscs) THEN <<0, 1>>
    ELSE RatAdd(<<Abs(oscs[k][3][1]), oscs[k][3][2]>>,
                AbsAmplitudeTotal(oscs, k + 1))

\* C1: a construction or a reconfiguration raises the amplitude error if and
\* only if the absolute amplitudes of the oscillators it was given sum to more
\* than 1; a negative amplitude counts by its magnitude and a sum of exactly 1
\* is accepted.
C1_AmplitudeErrorIffOverBudget ==
    result # "new" =>
        ((result = "amplitude") <=> RatLess(<<1, 1>>, AbsAmplitudeTotal(given, 1)))

\* A setter was given a list with a negative amplitude whose magnitudes sum to
\* more than 1 though the signed sum does not, and raised the amplitude error.
C1_Witness ==
    /\ constructed
    /\ result = "amplitude"
    /\ \E k \in 1..Len(given) : given[k][3][1] < 0
    /\ summed_amplitude = <<5, 4>>

\* A list summing to exactly 1 was accepted.
C1_WitnessExactlyOne ==
    /\ result = "ok"
    /\ Len(given) = 2
    /\ AbsAmplitudeTotal(given, 1) = <<1, 1>>

\* The shape fraction the resolution rule is documented with.
ShapeFraction(shape) ==
    CASE shape \in {Sine, Noise} -> 1
      [] shape \in {Square, Saw} -> 2
      [] shape = Triangle -> 4

\* C2: for a configuration that passes the amplitude check, the rebuild raises
\* the resolution error if and only if some oscillator has
\* floor(table_length / (lambda_factor * shape_fraction) / ratio) < 2 with
\* shape_fraction 1 for Sine and Noise, 2 for Square and Saw, 4 for Triangle.
C2_ResolutionErrorIffShapeFraction ==
    (result # "new" /\ result # "amplitude") =>
        ((result = "resolution") <=>
            \E k \in 1..Len(oscillators) :
                SegmentLength(table_length, lambda_factor,
                              ShapeFraction(oscillators[k][1]),
                              oscillators[k][2]) < 2)

\* C3: after every successful rebuild the wave table has exactly table_length
\* samples, and so has the array each generator returned for it; the addition
\* of a generator's array to the table never meets an array of another length.
C3_TableHasTableLengthSamples ==
    /\ result # "shape"
    /\ result = "ok" =>
         /\ Len(waveform) = table_length
         /\ \A k \in 1..Len(oscillators) :
              Len(WaveOf(oscillators[k], k, table_length, sample_max,
                         lambda_factor, 0)) = table_length

\* The samples of one unit cell of a repeating generator.
CellLength(osc, tl, lf) ==
    CASE osc[1] = Saw -> 2 * SegmentLength(tl, lf, 2, osc[2]) - 1
      [] osc[1] = Square -> 2 * SegmentLength(tl, lf, 2, osc[2])
      [] osc[1] = Triangle -> 4 * SegmentLength(tl, lf, 4, osc[2])
      [] OTHER -> tl

\* A setter has rebuilt a table from a Triangle generator whose repeated unit
\* cell passed table_length and was truncated.
C3_Witness ==
    /\ result = "ok"
    /\ reconfigured
    /\ \E k \in 1..Len(oscillators) :
         /\ oscillators[k][1] = Triangle
         /\ table_length % CellLength(oscillators[k], table_length, lambda_factor) # 0
    /\ Len(waveform) = table_length

\* C4: after a successful rebuild with loop_smoothing the last sample equals
\* the first and loop_distortion is 0; without loop_smoothing the table is the
\* unsmoothed sum and loop_distortion is abs(first - last) / sample_max * 100.
C4_LoopSmoothingAndDistortion ==
    result = "ok" =>
        LET n == Len(waveform)
            unsmoothed == Accumulate(oscillators, 1, Zeros(table_length),
                                     table_length, sample_max, lambda_factor,
                                     0, FALSE).wave
        IN /\ loop_smoothing =>
                /\ waveform[n] = waveform[1]
                /\ loop_distortion = <<0, 1>>
           /\ ~loop_smoothing =>
                /\ loop_distortion
                     = Rat(Abs(waveform[1] - waveform[n]) * 100, sample_max)
                /\ ~HasNoise(oscillators) => waveform = unsmoothed

\* A table whose unsmoothed sum had different first and last samples was
\* rebuilt with loop_smoothing.
C4_Witness ==
    /\ result = "ok"
    /\ loop_smoothing
    /\ ~HasNoise(oscillators)
    /\ LET unsmoothed == Accumulate(oscillators, 1, Zeros(table_length),
                                    table_length, sample_max, lambda_factor,
                                    0, FALSE).wave
       IN /\ unsmoothed[Len(unsmoothed)] # unsmoothed[1]
          /\ waveform # unsmoothed
          /\ waveform[Len(waveform)] = waveform[1]

\* C5: a setter call that fails with the amplitude or the resolution error
\* installs no new table: wave_table and loop_distortion read after the call
\* are those read before it.
C5_FailedSetterKeepsTable ==
    [][(constructed /\ result' \in Errors) =>
           /\ WaveTableProperty' = WaveTableProperty
           /\ LoopDistortionProperty' = LoopDistortionProperty]_vars

\* A setter call has failed on a built table: the builder still holds a whole
\* table, of a length or of a peak its new configuration would not give it.
C5_Witness ==
    /\ constructed
    /\ reconfigured
    /\ result \in Errors
    /\ Len(waveform) # table_length
    /\ \E i \in 1..Len(waveform) : waveform[i] # 0

\* The state a new WaveBuilder has when built with the given field values and
\* no Noise oscillator; its result is that of the constructor call.
NewWaveBuilder(oscs, tl, sm, lf, ls) ==
    LET normalized == Normalize(oscs)
        summed == SummedAmplitude(normalized)
        sum == Accumulate(normalized, 1, Zeros(tl), tl, sm, lf, 0, FALSE)
        smoothed == Smooth(sum.wave, ls)
    IN IF ExceedsBudget(summed) THEN [result |-> "amplitude"]
       ELSE IF FirstTooSmall(normalized, 1, tl, lf) # 0
       THEN [result |-> "resolution"]
       ELSE IF sum.raised # "ok" THEN [result |-> sum.raised]
       ELSE [result |-> "ok",
             oscillators |-> normalized,
             wave_table |-> smoothed,
             loop_distortion |-> LoopDistortion(smoothed, sm),
             summed_amplitude |-> summed]

\* C6: after any sequence of setter calls whose last call succeeds, the wave
\* table, loop_distortion and summed_amplitude are those of a new WaveBuilder
\* constructed with the builder's current field values (no Noise oscillator).
C6_SettersRebuildFromCurrentFields ==
    (constructed /\ result = "ok" /\ ~HasNoise(oscillators)) =>
        NewWaveBuilder(oscillators, table_length, sample_max, lambda_factor,
                       loop_smoothing)
          = [result |-> "ok",
             oscillators |-> oscillators,
             wave_table |-> WaveTableProperty,
             loop_distortion |-> LoopDistortionProperty,
             summed_amplitude |-> SummedAmplitudeProperty]

\* The last call was a setter call and it succeeded, on a list of two
\* oscillators with a sample_max other than the default.
C6_Witness ==
    /\ constructed
    /\ reconfigured
    /\ result = "ok"
    /\ ~HasNoise(oscillators)
    /\ Len(oscillators) = 2
    /\ sample_max = 100
    /\ loop_smoothing
    /\ \E i \in 1..Len(waveform) : waveform[i] # 0

\* The lowest frequency value of a list.
LowestGiven(oscs) ==
    CHOOSE f \in {oscs[j][2] : j \in 1..Len(oscs)} :
        \A j \in 1..Len(oscs) : ~RatLess(oscs[j][2], f)

\* C7: after a rebuild every stored oscillator's second field is its given
\* value divided by the lowest given value of the list, so the lowest has
\* ratio exactly 1 and every other one a ratio of at least 1; shape, amplitude
\* and list order are unchanged.
C7_RatiosRelativeToLowest ==
    result # "new" =>
        /\ Len(oscillators) = Len(given)
        /\ \A k \in 1..Len(given) :
             LET lowest == LowestGiven(given)
                 ratio == oscillators[k][2]
             IN /\ oscillators[k][1] = given[k][1]
                /\ oscillators[k][3] = given[k][3]
                /\ ratio[1] * lowest[1] * given[k][2][2]
                     = given[k][2][1] * lowest[2] * ratio[2]
                /\ ratio[2] > 0 /\ GCD(Abs(ratio[1]), ratio[2]) = 1
                /\ ~RatLess(ratio, <<1, 1>>)
                /\ given[k][2] = lowest => ratio = <<1, 1>>

\* The oscillators setter was given the frequencies 440, 880, 220 and the
\* oscillators property reads them back as 2, 4, 1.
C7_Witness ==
    /\ constructed
    /\ reconfigured
    /\ Len(given) = 3
    /\ given[1][2] = <<440, 1>> /\ given[2][2] = <<880, 1>>
    /\ given[3][2] = <<220, 1>>
    /\ oscillators[1][2] = <<2, 1>> /\ oscillators[2][2] = <<4, 1>>
    /\ oscillators[3][2] = <<1, 1>>

\* C8: whenever the builder can be read, summed_amplitude is at most 1.
C8_SummedAmplitudeAtMostOne ==
    constructed => ~RatLess(<<1, 1>>, SummedAmplitudeProperty)

\* C9: for a configuration that passed the amplitude check with
\* sample_max <= 32767, every sample of the table has magnitude at most
\* sample_max.
C9_SamplesWithinSampleMax ==
    (result = "ok" /\ sample_max <= 32767) =>
        \A i \in 1..Len(waveform) : Abs(waveform[i]) <= sample_max

\* C10: reading table_length returns the number of samples of the wave table,
\* the table_length most recently given.
C10_TableLengthReadsLength ==
    (constructed /\ result = "ok") =>
        /\ TableLengthProperty = PyInt(table_length)
        /\ TableLengthProperty = PyInt(Len(WaveTableProperty))

\* The amplitudes A of [0, 1] the phase flip is checked for.
FlipAmplitudes == {<<0, 1>>, <<1, 4>>, <<1, 2>>, <<3, 4>>, <<1, 1>>}

Negated(w) == [i \in 1..Len(w) |-> -w[i]]

\* C11: for the Square, Saw, Triangle and Sine generators, with the same
\* ratio, table_length, sample_max and lambda_factor, the waveform generated
\* with amplitude -A is at every index the negation of the one generated with
\* amplitude A, for A in [0, 1].  Checked for the shape and ratio of every
\* oscillator of every table that was built.
C11_NegativeAmplitudeFlipsPhase ==
    result = "ok" =>
        \A k \in 1..Len(oscillators) : \A A \in FlipAmplitudes :
            oscillators[k][1] # Noise =>
                LET plus == <<oscillators[k][1], oscillators[k][2], A>>
                    minus == <<oscillators[k][1], oscillators[k][2],
                               <<-A[1], A[2]>>>>
                IN WaveOf(minus, k, table_length, sample_max, lambda_factor, 0)
                     = Negated(WaveOf(plus, k, table_length, sample_max,
                                      lambda_factor, 0))

\* A table was built from a Saw oscillator of negative amplitude whose
\* waveform is not zero and is the negation of the one of the positive
\* amplitude, and from a peak (32767) that halves to a fraction.
C11_Witness ==
    /\ result = "ok"
    /\ sample_max = 32767
    /\ \E k \in 1..Len(oscillators) :
         /\ oscillators[k][1] = Saw
         /\ oscillators[k][3][1] < 0
         /\ LET w == WaveOf(oscillators[k], k, table_length, sample_max,
                            lambda_factor, 0)
                flipped == WaveOf(<<Saw, oscillators[k][2],
                                    RatAbs(oscillators[k][3])>>, k,
                                  table_length, sample_max, lambda_factor, 0)
            IN /\ \E i \in 1..Len(w) : w[i] < 0
               /\ w = Negated(flipped)

\* The oscillator the resolution error is raised for, and the table_length
\* its message names.
FailingOscillator ==
    oscillators[FirstTooSmall(oscillators, 1, table_length, lambda_factor)]

NamedMinLength == MinLength(FailingOscillator, lambda_factor)

\* C12: when a rebuild fails the resolution check for an oscillator, the
\* table_length named in the error is the minimum viable one: the oscillator
\* passes the check at that length with the same lambda_factor, and fails it
\* at every smaller length.
C12_NamedLengthIsMinimumViable ==
    result = "resolution" =>
        /\ ~TooSmall(FailingOscillator, NamedMinLength, lambda_factor)
        /\ \A tl \in 1..(NamedMinLength - 1) :
               TooSmall(FailingOscillator, tl, lambda_factor)

\* The tables the accumulation loop can have summed for the current fields,
\* before loop smoothing: one for each outcome of the noise generator.
SummedTables ==
    {Accumulate(oscillators, 1, Zeros(table_length), table_length, sample_max,
                lambda_factor, seed, FALSE).wave :
        seed \in (IF HasNoise(oscillators) THEN NoiseSeeds ELSE {0})}

\* The published table t is the summed table s but for the last two samples:
\* t[n-2] = average(s[n-2] + s[0]) and t[n-1] = s[0] (indices from 0).
SmoothedAs(t, s, Average(_)) ==
    LET n == Len(s)
    IN /\ Len(t) = n
       /\ t[n - 1] = Average(s[n - 1] + s[1])
       /\ t[n] = s[1]
       /\ \A i \in 1..(n - 2) : t[i] = s[i]

RoundedHalf(x) == RoundHalfEven(x, 2)

TruncatedHalf(x) == Trunc(x, 2)

\* C13: when loop_smoothing is enabled and the summed table s of length n has
\* s[0] # s[n-1], the published table t has t[n-2] = round((s[n-2] + s[0]) / 2),
\* t[n-1] = s[0] and t[i] = s[i] for every i < n-2; when s[0] = s[n-1], or
\* loop_smoothing is disabled, t = s.
C13_SmoothingRoundsTheAverage ==
    result = "ok" =>
        \E s \in SummedTables :
            IF loop_smoothing /\ s[1] # s[Len(s)]
            THEN SmoothedAs(waveform, s, RoundedHalf)
            ELSE waveform = s

\* C13, amended: the same, with t[n-2] = int((s[n-2] + s[0]) / 2), the average
\* truncated towards zero.
C13_SmoothingTruncatesTheAverage ==
    result = "ok" =>
        \E s \in SummedTables :
            IF loop_smoothing /\ s[1] # s[Len(s)]
            THEN SmoothedAs(waveform, s, TruncatedHalf)
            ELSE waveform = s

\* A table was smoothed whose summed samples s[n-2] and s[0] have an odd sum,
\* one that truncation and rounding halve to different integers.
C13_Witness ==
    /\ result = "ok"
    /\ loop_smoothing
    /\ \E s \in SummedTables :
         /\ s[1] # s[Len(s)]
         /\ SmoothedAs(waveform, s, TruncatedHalf)
         /\ TruncatedHalf(s[Len(s) - 1] + s[1])
              # RoundedHalf(s[Len(s) - 1] + s[1])

\* The Saw waveform as C14 describes it: the repetition, truncated to tl, of a
\* cell of two ramps of half_lambda samples each.
SawOfTwoFullRamps(ratio, amplitude, tl, sm, lf) ==
    LET amp_factor == AmpFactor(sm, amplitude)
        half_lambda == SegmentLength(tl, lf, 2, ratio)
        cell == Linspace(0, amp_factor, half_lambda)
                \o Linspace(-amp_factor, 0, half_lambda)
    IN Truncate(Extend(<<>>, cell, tl), tl)

C15_HeldTableIsNeverModified ==
    [][held = "current" =>
           \/ held' = "earlier"
           \/ /\ held' = "current"
              /\ WaveTableProperty' = WaveTableProperty]_vars

\* A consumer holds an earlier table while the builder, reconfigured since,
\* has summed a new table and smoothed its last samples in place.
C15_Witness ==
    /\ held = "earlier"
    /\ reconfigured
    /\ result = "ok"
    /\ loop_smoothing
    /\ \A s \in SummedTables : s[1] # s[Len(s)] /\ waveform # s

\* A consumer still holds the builder's current table after a setter failed.
C15_WitnessFailedSetter ==
    /\ held = "current"
    /\ reconfigured
    /\ result \in Errors

====
